---- MODULE Spec2Model ----
(***************************************************************************)
(* The reservation backend of pispas-reservation as a state machine.       *)
(*                                                                         *)
(* The state is the document store (collections restaurants, mesas,        *)
(* reservas, and which unique indexes exist) and the handlers that are     *)
(* suspended at an .await between two store calls.  One action per handler *)
(* segment: a handler that makes two dependent store calls (pre-check      *)
(* find_one, then insert_one) is two actions, so that other requests       *)
(* interleave between the read and the write exactly where the async code  *)
(* can be preempted.  Each segment is an operator, named after its         *)
(* handler, from the current store and the request to the set of outcomes  *)
(* the code can produce: the response sent (NoResp when the handler        *)
(* suspends instead), the new value of what it writes, and the             *)
(* continuation it suspends as.  The action of the segment takes one of    *)
(* these outcomes.                                                         *)
(*                                                                         *)
(* Texts on which the code works character by character (the Authorization *)
(* header, tokens, ObjectId hex strings, e-mail, customer name, phone,     *)
(* date, time) are sequences of one-character strings.  Texts the code     *)
(* only compares or tests for emptiness are TLA+ strings.                  *)
(* Option<T> is a sequence of length 0 (None) or 1 (Some).                 *)
(* Not modelled: created_at / updated_at (wall-clock values that no guard  *)
(* reads), pos_x/pos_y/size_x/size_y (copied verbatim), store calls that   *)
(* fail for infrastructure reasons other than a unique-index violation.    *)
(***************************************************************************)
EXTENDS Integers, Sequences, FiniteSets, Bags, TLC

VARIABLES
    indexed,      \* how many of the three create_indexes calls succeeded at startup
    restaurants,  \* collection "restaurants"
    mesas,        \* collection "mesas"
    reservas,     \* collection "reservas"
    nextId,       \* next ObjectId the driver generates
    inflight,     \* bag of handlers suspended between pre-check and insert
    cancels       \* history: bag of the reservation ids of the successful cancel responses

vars == <<indexed, restaurants, mesas, reservas, nextId, inflight, cancels>>

store == <<restaurants, mesas, reservas>>

-----------------------------------------------------------------------------
(* Bounds of the model *)

\* ObjectIds issued to stored documents over a run
MaxDocs == 4
\* handlers suspended between two store calls at the same time
MaxInflight == 2

-----------------------------------------------------------------------------
(* Option and text helpers *)

None == << >>
Some(x) == <<x>>
IsSome(o) == Len(o) = 1

StartsWith(s, p) == Len(s) >= Len(p) /\ SubSeq(s, 1, Len(p)) = p

Contains(s, c) == \E i \in 1..Len(s) : s[i] = c

\* str::trim().is_empty(): nothing but white space
TrimIsEmpty(s) == \A i \in 1..Len(s) : s[i] \in {" ", "\t"}

DecDigits == <<"0", "1", "2", "3", "4", "5", "6", "7", "8", "9">>
IsDigit(c) == \E i \in 1..10 : DecDigits[i] = c
DigitVal(c) == (CHOOSE i \in 1..10 : DecDigits[i] = c) - 1

\* the characters HeaderValue::to_str() accepts among those the model uses
VisibleAscii ==
    {DecDigits[i] : i \in 1..10} \cup
    {"B", "e", "a", "r", " ", "b", "u", "z", "c", "d", "f", "-", ":", "@", "."}

-----------------------------------------------------------------------------
(* ObjectId <-> hex string.  Two hex characters stand for the 24 of a real *)
(* ObjectId.                                                               *)

HexLower == <<"0", "1", "2", "3", "4", "5", "6", "7", "8", "9", "a", "b", "c", "d", "e", "f">>
HexUpper == <<"0", "1", "2", "3", "4", "5", "6", "7", "8", "9", "A", "B", "C", "D", "E", "F">>
IsHex(c) == \E i \in 1..16 : HexLower[i] = c \/ HexUpper[i] = c
HexVal(c) == (CHOOSE i \in 1..16 : HexLower[i] = c \/ HexUpper[i] = c) - 1

to_hex(oid) == <<HexLower[(oid \div 16) + 1], HexLower[(oid % 16) + 1]>>

\* ObjectId::parse_str: None when the text is not a full-length hex string
parse_str(s) ==
    IF Len(s) = Len(to_hex(0)) /\ \A i \in 1..Len(s) : IsHex(s[i])
    THEN Some(16 * HexVal(s[1]) + HexVal(s[2]))
    ELSE None

-----------------------------------------------------------------------------
(* Responses.  kind is "Ok" or the AppError variant the handler returned;   *)
(* message holds what the variant carries of a failed store call: the text *)
(* the handler put before the driver's error, and the driver's error (the  *)
(* fixed texts of the other errors are left out).                          *)

NoResp == [op |-> "none", kind |-> "none", id |-> None, estado |-> "",
           access_token |-> None, items |-> << >>, count |-> 0, message |-> << >>]

Reply(op, kind) == [NoResp EXCEPT !.op = op, !.kind = kind]

\* the Display of the mongodb error of an insert a unique index refused
DuplicateKeyError == "E11000 duplicate key error collection"

\* a handler's reply to a failed store call: format!("{text}: {}", e)
StoreFailure(op, kind, text, e) == [Reply(op, kind) EXCEPT !.message = <<text, e>>]

\* impl Display for AppError (#[error("...")]) of the variants handlers return
to_string(error) ==
    <<CASE error.kind = "Validation" -> "Error de validación: "
        [] error.kind = "Unauthorized" -> "No autorizado: "
        [] error.kind = "NotFound" -> "No encontrado: "
        [] error.kind = "Conflict" -> "Conflicto: "
        [] error.kind = "Internal" -> "Error interno: "
        [] error.kind = "Database" -> "Error de base de datos en operación: ">>
    \o error.message

\* AppError::error_response: the status and the ErrorResponse body sent.
\* Only Database has an arm of its own among the variants handlers return;
\* the others fall to the last arm.
error_response(error) ==
    IF error.kind = "Database"
    THEN [status |-> 500, error |-> "Error de base de datos",
          message |-> <<"Error interno del servidor">>]
    ELSE [status |-> 500, error |-> "Error", message |-> to_string(error)]

\* what the client receives for a handler's result
HttpResponse(resp) ==
    IF resp.kind = "Ok"
    THEN [status |-> 200, error |-> "", message |-> << >>]
    ELSE error_response(resp)

-----------------------------------------------------------------------------
(* Authentication *)

BearerPrefix == <<"B", "e", "a", "r", "e", "r", " ">>

\* (mutant) the scheme is not compared: the first seven characters are dropped
extract_token_any_scheme(header) ==
    IF ~IsSome(header) THEN None
    ELSE IF ~(\A i \in 1..Len(header[1]) : header[1][i] \in VisibleAscii) THEN None
    ELSE IF Len(header[1]) < Len(BearerPrefix) THEN None
    ELSE Some(SubSeq(header[1], Len(BearerPrefix) + 1, Len(header[1])))

\* extract_token: Some(token) or None (-> AppError::Unauthorized)
extract_token(header) ==
    IF ~IsSome(header) THEN None
    ELSE IF ~(\A i \in 1..Len(header[1]) : header[1][i] \in VisibleAscii) THEN None
    ELSE IF ~StartsWith(header[1], BearerPrefix) THEN None
    ELSE Some(SubSeq(header[1], Len(BearerPrefix) + 1, Len(header[1])))

\* validate_access_token: the ids find_one({access_token: token}) can return
validate_access_token(token) ==
    {r.id : r \in {x \in restaurants : x.access_token = token}}

\* the restaurant ids a request with this header is authenticated as
\* ({}: the handler returns Unauthorized)
Authenticate(header) ==
    IF IsSome(extract_token(header))
    THEN validate_access_token(extract_token(header)[1])
    ELSE {}

\* Uuid::new_v4(): a token no stored restaurant carries
NewUuid == <<"u", DecDigits[Cardinality(restaurants) + 2]>>

BogusToken == <<"z", "z">>

\* Authorization headers that carry a stored token in the expected format
GoodHeaders == {Some(BearerPrefix \o r.access_token) : r \in restaurants}

\* no header, no scheme, a lower-case scheme, a non-ASCII value, an unknown token
BadHeaders ==
    {None, Some(<<"u", "1">>), Some(<<"b", "e", "a", "r", "e", "r", " ", "u", "1">>),
     Some(BearerPrefix \o <<"u", "é">>), Some(BearerPrefix \o BogusToken)}

Headers == GoodHeaders \cup BadHeaders

\* the requests a handler is tried on: every body under every good header,
\* and one body under every bad header
Requests(bodies, body) ==
    (GoodHeaders \X bodies) \cup (BadHeaders \X {body})

-----------------------------------------------------------------------------
(* Unique indexes (MongoRepo::create_indexes).  main() calls it once and   *)
(* keeps serving when it fails; its three collection calls run in order    *)
(* and the first failure skips the rest.                                   *)

RestaurantsIndexed == indexed >= 1
MesasIndexed == indexed >= 2
ReservasIndexed == indexed >= 3

\* E11000 on restaurants: objid_pispas, nombre and access_token are each unique
RestaurantDuplicateKey(doc) ==
    /\ RestaurantsIndexed
    /\ \E r \in restaurants :
          \/ r.objid_pispas = doc.objid_pispas
          \/ r.nombre = doc.nombre
          \/ r.access_token = doc.access_token

\* E11000 on mesas: (id_restaurante, nombre) is unique
MesaDuplicateKey(doc) ==
    /\ MesasIndexed
    /\ \E m \in mesas : m.id_restaurante = doc.id_restaurante /\ m.nombre = doc.nombre

\* E11000 on reservas: (id_mesa, fecha, hora) is unique, whatever the estado
ReservaDuplicateKey(doc) ==
    /\ ReservasIndexed
    /\ \E r \in reservas :
          r.id_mesa = doc.id_mesa /\ r.fecha = doc.fecha /\ r.hora = doc.hora

\* a handler may suspend before its insert while an ObjectId is left for it
CanSuspend ==
    /\ BagCardinality(inflight) < MaxInflight
    /\ nextId + BagCardinality(inflight) <= MaxDocs

\* the handler that was suspended as req (None: a new request) ends or
\* suspends as next (None: it has responded)
Continue(req, next) ==
    /\ IsSome(req) => BagIn(req[1], inflight)
    /\ IsSome(next) /\ ~IsSome(req) => CanSuspend
    /\ inflight' = (inflight (-) SetToBag({req[i] : i \in 1..Len(req)}))
                      (+) SetToBag({next[i] : i \in 1..Len(next)})

-----------------------------------------------------------------------------
(* Restaurant account service (api/restaurant.rs) *)

MinPasswordLen == 6

RegisterBody(o, n, p, a) ==
    [objid_pispas |-> o, name |-> n, password |-> p, confirmar_automaticamente |-> a]

RegisterInputs ==
    {RegisterBody("X1", "Bistro", "secret1", FALSE),
     RegisterBody("X2", "Cafe", "secret1", TRUE),
     RegisterBody("X1", "Cafe", "secret1", TRUE),
     RegisterBody("", "Bistro", "secret1", FALSE),
     RegisterBody("X1", "", "secret1", FALSE),
     RegisterBody("X1", "Bistro", "12345", FALSE)}

\* (mutant) the password is only required to be present
register_restaurant_invalid_any_password(data) ==
    \/ data.name = ""
    \/ Len(data.password) < 1
    \/ data.objid_pispas = ""

\* the "Validación básica" of register_restaurant: TRUE when one fails
register_restaurant_invalid(data) ==
    \/ data.name = ""
    \/ Len(data.password) < MinPasswordLen
    \/ data.objid_pispas = ""

\* register_restaurant up to the .await of insert_one
register_restaurant(data) ==
    IF register_restaurant_invalid(data)
    THEN {[resp |-> Reply("register", "Validation"), suspend |-> None]}
    ELSE IF \E r \in restaurants :
               r.nombre = data.name \/ r.objid_pispas = data.objid_pispas
    THEN {[resp |-> Reply("register", "Conflict"), suspend |-> None]}
    ELSE {[resp |-> NoResp,
           suspend |-> Some([pc |-> "register_insert", data |-> data])]}

\* register_restaurant from insert_one to the response
register_restaurant_insert(req) ==
    LET doc == [id |-> nextId,
                objid_pispas |-> req.data.objid_pispas,
                nombre |-> req.data.name,
                password |-> req.data.password,
                confirmar_automaticamente |-> req.data.confirmar_automaticamente,
                access_token |-> NewUuid]
    IN IF RestaurantDuplicateKey(doc)
       THEN {[resp |-> StoreFailure("register", "Database", "register_restaurant",
                                    DuplicateKeyError),
              restaurants |-> restaurants]}
       ELSE {[resp |-> [Reply("register", "Ok") EXCEPT
                          !.id = Some(to_hex(doc.id)),
                          !.access_token = Some(doc.access_token)],
              restaurants |-> restaurants \cup {doc}]}

LoginBody(n, p) == [name |-> n, password |-> p]

LoginInputs ==
    {LoginBody("Bistro", "secret1"), LoginBody("Cafe", "secret1"),
     LoginBody("Bistro", "12345"), LoginBody("", "secret1"), LoginBody("Bistro", "")}

\* (mutant) find_one filters on the name only
login_restaurant_name_only(data) ==
    IF data.name = "" \/ data.password = ""
    THEN {[resp |-> Reply("login", "Validation")]}
    ELSE LET found == {r \in restaurants : r.nombre = data.name}
         IN IF found = {}
            THEN {[resp |-> Reply("login", "Unauthorized")]}
            ELSE {[resp |-> [Reply("login", "Ok") EXCEPT
                               !.id = Some(to_hex(r.id)),
                               !.access_token = Some(r.access_token)]] : r \in found}

\* login_restaurant
login_restaurant(data) ==
    IF data.name = "" \/ data.password = ""
    THEN {[resp |-> Reply("login", "Validation")]}
    ELSE LET found == {r \in restaurants :
                          r.nombre = data.name /\ r.password = data.password}
         IN IF found = {}
            THEN {[resp |-> Reply("login", "Unauthorized")]}
            ELSE {[resp |-> [Reply("login", "Ok") EXCEPT
                               !.id = Some(to_hex(r.id)),
                               !.access_token = Some(r.access_token)]] : r \in found}

RegisterCheck(data) ==
    /\ \E o \in register_restaurant(data) : Continue(None, o.suspend)
    /\ UNCHANGED <<indexed, store, nextId, cancels>>

RegisterInsert(req) ==
    /\ req.pc = "register_insert"
    /\ Continue(Some(req), None)
    /\ \E o \in register_restaurant_insert(req) :
         /\ restaurants' = o.restaurants
         /\ nextId' = IF o.resp.kind = "Ok" THEN nextId + 1 ELSE nextId
    /\ UNCHANGED <<indexed, mesas, reservas, cancels>>

Login(data) ==
    /\ login_restaurant(data) # {}
    /\ UNCHANGED vars

-----------------------------------------------------------------------------
(* Table registry (api/table.rs) *)

\* the documents of S as a list in _id (insertion) order, as a cursor yields them
RECURSIVE InIdOrder(_)
InIdOrder(S) ==
    IF S = {} THEN << >>
    ELSE LET first == CHOOSE d \in S : \A e \in S : d.id <= e.id
         IN <<first>> \o InIdOrder(S \ {first})

\* MesaResponse::from
MesaResponse(mesa) ==
    [id |-> to_hex(mesa.id),
     id_restaurante |-> to_hex(mesa.id_restaurante),
     tipo |-> mesa.tipo,
     nombre |-> mesa.nombre,
     forma |-> mesa.forma,
     reservable |-> mesa.reservable,
     min_personas |-> mesa.min_personas,
     max_personas |-> mesa.max_personas]

\* texts a client can send where an ObjectId is expected: the ids of the
\* documents of a collection, an id no document has, and a text that is no id
UnknownId == to_hex(0)
NotAnId == <<"z", "z">>
IdTexts(collection) == {to_hex(d.id) : d \in collection} \cup {UnknownId, NotAnId}

TableShapes ==
    {[nombre |-> "T1", forma |-> "cuadrado", reservable |-> TRUE,
      min_personas |-> Some(2), max_personas |-> Some(4)],
     [nombre |-> "T2", forma |-> "circulo", reservable |-> FALSE,
      min_personas |-> None, max_personas |-> None],
     [nombre |-> "", forma |-> "cuadrado", reservable |-> TRUE,
      min_personas |-> None, max_personas |-> None],
     [nombre |-> "T1", forma |-> "triangulo", reservable |-> TRUE,
      min_personas |-> None, max_personas |-> None],
     [nombre |-> "T1", forma |-> "circulo", reservable |-> TRUE,
      min_personas |-> Some(4), max_personas |-> Some(2)]}

NewTable(i, t) ==
    [id_restaurante |-> i, tipo |-> "mesa", nombre |-> t.nombre, forma |-> t.forma,
     reservable |-> t.reservable, min_personas |-> t.min_personas,
     max_personas |-> t.max_personas]

NewTableInputs ==
    {NewTable(to_hex(r.id), t) : r \in restaurants, t \in TableShapes}
    \cup {NewTable(i, CHOOSE t \in TableShapes : t.nombre = "T2") :
            i \in {UnknownId, NotAnId}}

QueryParamsInputs == {[id_restaurante |-> i] : i \in IdTexts(restaurants)}

\* (mutant) the bounds are not compared
create_table_invalid_any_bounds(data) ==
    \/ data.nombre = ""
    \/ data.forma # "cuadrado" /\ data.forma # "circulo"

\* the "Validaciones" of create_table: TRUE when one fails
create_table_invalid(data) ==
    \/ data.nombre = ""
    \/ data.forma # "cuadrado" /\ data.forma # "circulo"
    \/ /\ IsSome(data.min_personas) /\ IsSome(data.max_personas)
       /\ data.min_personas[1] > data.max_personas[1]

\* create_table up to the .await of insert_one
create_table(header, data) ==
    IF Authenticate(header) = {}
    THEN {[resp |-> Reply("create_table", "Unauthorized"), suspend |-> None]}
    ELSE {IF ~IsSome(parse_str(data.id_restaurante))
          THEN [resp |-> Reply("create_table", "Validation"), suspend |-> None]
          ELSE LET id_restaurante == parse_str(data.id_restaurante)[1]
          IN IF user_id # id_restaurante
             THEN [resp |-> Reply("create_table", "Unauthorized"), suspend |-> None]
             ELSE IF create_table_invalid(data)
             THEN [resp |-> Reply("create_table", "Validation"), suspend |-> None]
             ELSE IF \E m \in mesas :
                        m.id_restaurante = id_restaurante /\ m.nombre = data.nombre
             THEN [resp |-> Reply("create_table", "Conflict"), suspend |-> None]
             ELSE [resp |-> NoResp,
                   suspend |-> Some([pc |-> "mesa_insert",
                                     id_restaurante |-> id_restaurante,
                                     data |-> data])]
          : user_id \in Authenticate(header)}

\* create_table from insert_one to the response
create_table_insert(req) ==
    LET mesa == [id |-> nextId,
                 id_restaurante |-> req.id_restaurante,
                 tipo |-> req.data.tipo,
                 nombre |-> req.data.nombre,
                 forma |-> req.data.forma,
                 reservable |-> req.data.reservable,
                 min_personas |-> req.data.min_personas,
                 max_personas |-> req.data.max_personas]
    IN IF MesaDuplicateKey(mesa)
       THEN {[resp |-> StoreFailure("create_table", "Internal", "Error guardando mesa",
                                    DuplicateKeyError),
              mesas |-> mesas]}
       ELSE {[resp |-> [Reply("create_table", "Ok") EXCEPT !.id = Some(to_hex(mesa.id))],
              mesas |-> mesas \cup {mesa}]}

\* get_tables
get_tables(header, query) ==
    IF Authenticate(header) = {}
    THEN {[resp |-> Reply("get_tables", "Unauthorized")]}
    ELSE {IF ~IsSome(parse_str(query.id_restaurante))
          THEN [resp |-> Reply("get_tables", "Validation")]
          ELSE LET id_restaurante == parse_str(query.id_restaurante)[1]
          IN IF user_id # id_restaurante
             THEN [resp |-> Reply("get_tables", "Unauthorized")]
             ELSE LET found == {m \in mesas : m.id_restaurante = id_restaurante}
                  IN [resp |-> [Reply("get_tables", "Ok") EXCEPT
                                  !.items = [i \in 1..Cardinality(found) |->
                                               MesaResponse(InIdOrder(found)[i])]]]
          : user_id \in Authenticate(header)}

\* (mutant) delete_many runs before the owner is compared
clear_tables_delete_first(header, query) ==
    IF Authenticate(header) = {}
    THEN {[resp |-> Reply("clear_tables", "Unauthorized"), mesas |-> mesas]}
    ELSE {IF ~IsSome(parse_str(query.id_restaurante))
          THEN [resp |-> Reply("clear_tables", "Validation"), mesas |-> mesas]
          ELSE LET id_restaurante == parse_str(query.id_restaurante)[1]
                   found == {m \in mesas : m.id_restaurante = id_restaurante}
          IN IF user_id # id_restaurante
             THEN [resp |-> Reply("clear_tables", "Unauthorized"), mesas |-> mesas \ found]
             ELSE [resp |-> [Reply("clear_tables", "Ok") EXCEPT
                               !.count = Cardinality(found)],
                   mesas |-> mesas \ found]
          : user_id \in Authenticate(header)}

\* (mutant) delete_one in place of delete_many: only the first table goes
clear_tables_delete_one(header, query) ==
    IF Authenticate(header) = {}
    THEN {[resp |-> Reply("clear_tables", "Unauthorized"), mesas |-> mesas]}
    ELSE {IF ~IsSome(parse_str(query.id_restaurante))
          THEN [resp |-> Reply("clear_tables", "Validation"), mesas |-> mesas]
          ELSE LET id_restaurante == parse_str(query.id_restaurante)[1]
          IN IF user_id # id_restaurante
             THEN [resp |-> Reply("clear_tables", "Unauthorized"), mesas |-> mesas]
             ELSE LET found == {m \in mesas : m.id_restaurante = id_restaurante}
                      first == IF found = {} THEN {} ELSE {InIdOrder(found)[1]}
                  IN [resp |-> [Reply("clear_tables", "Ok") EXCEPT
                                  !.count = Cardinality(first)],
                      mesas |-> mesas \ first]
          : user_id \in Authenticate(header)}

\* clear_tables
clear_tables(header, query) ==
    IF Authenticate(header) = {}
    THEN {[resp |-> Reply("clear_tables", "Unauthorized"), mesas |-> mesas]}
    ELSE {IF ~IsSome(parse_str(query.id_restaurante))
          THEN [resp |-> Reply("clear_tables", "Validation"), mesas |-> mesas]
          ELSE LET id_restaurante == parse_str(query.id_restaurante)[1]
          IN IF user_id # id_restaurante
             THEN [resp |-> Reply("clear_tables", "Unauthorized"), mesas |-> mesas]
             ELSE LET found == {m \in mesas : m.id_restaurante = id_restaurante}
                  IN [resp |-> [Reply("clear_tables", "Ok") EXCEPT
                                  !.count = Cardinality(found)],
                      mesas |-> mesas \ found]
          : user_id \in Authenticate(header)}

CreateTableCheck(header, data) ==
    /\ \E o \in create_table(header, data) : Continue(None, o.suspend)
    /\ UNCHANGED <<indexed, store, nextId, cancels>>

CreateTableInsert(req) ==
    /\ req.pc = "mesa_insert"
    /\ Continue(Some(req), None)
    /\ \E o \in create_table_insert(req) :
         /\ mesas' = o.mesas
         /\ nextId' = IF o.resp.kind = "Ok" THEN nextId + 1 ELSE nextId
    /\ UNCHANGED <<indexed, restaurants, reservas, cancels>>

GetTables(header, query) ==
    /\ get_tables(header, query) # {}
    /\ UNCHANGED vars

ClearTables(header, query) ==
    /\ \E o \in clear_tables(header, query) : mesas' = o.mesas
    /\ UNCHANGED <<indexed, restaurants, reservas, nextId, inflight, cancels>>

-----------------------------------------------------------------------------
(* Reservation manager (api/reservation.rs) *)

\* validate_email
validate_email(email) == Contains(email, "@") /\ Contains(email, ".")

\* how many decimal digits a numeric format item consumes at pos: it takes
\* digits greedily, at most maxw of them
DigitRun(s, pos, maxw) ==
    CHOOSE k \in 0..maxw :
        /\ \A i \in pos..(pos + k - 1) : i <= Len(s) /\ IsDigit(s[i])
        /\ \/ k = maxw
           \/ pos + k > Len(s)
           \/ ~IsDigit(s[pos + k])

RECURSIVE DecVal(_, _, _)
DecVal(s, pos, k) ==
    IF k = 0 THEN 0 ELSE 10 * DecVal(s, pos, k - 1) + DigitVal(s[pos + k - 1])

IsLeap(y) == (y % 4 = 0 /\ y % 100 # 0) \/ y % 400 = 0

DaysInMonth(y, m) ==
    IF m = 2 THEN (IF IsLeap(y) THEN 29 ELSE 28)
    ELSE IF m \in {4, 6, 9, 11} THEN 30 ELSE 31

\* validate_date: NaiveDate::parse_from_str(text, "%Y-%m-%d").  Each numeric
\* item accepts one digit up to its width (4, 2, 2), zero padding optional;
\* the text must be consumed entirely and name a calendar day.
\* Some(<<year, month, day>>) or None (-> AppError::Validation).
\* (Signs and white space, which the parser also tolerates before a number,
\* are outside the alphabet of the inputs below.)
validate_date(s) ==
    LET yk == DigitRun(s, 1, 4)
        mpos == yk + 2
        mk == DigitRun(s, mpos, 2)
        dpos == mpos + mk + 1
        dk == DigitRun(s, dpos, 2)
        y == DecVal(s, 1, yk)
        m == DecVal(s, mpos, mk)
        d == DecVal(s, dpos, dk)
    IN IF /\ yk >= 1 /\ Len(s) >= yk + 1 /\ s[yk + 1] = "-"
          /\ mk >= 1 /\ Len(s) >= mpos + mk /\ s[mpos + mk] = "-"
          /\ dk >= 1 /\ dpos + dk = Len(s) + 1
          /\ m \in 1..12 /\ d \in 1..DaysInMonth(y, m)
       THEN Some(<<y, m, d>>)
       ELSE None

\* validate_time: NaiveTime::parse_from_str(text, "%H:%M").
\* Some(<<hour, minute>>) or None (-> AppError::Validation)
validate_time(s) ==
    LET hk == DigitRun(s, 1, 2)
        mpos == hk + 2
        mk == DigitRun(s, mpos, 2)
        h == DecVal(s, 1, hk)
        m == DecVal(s, mpos, mk)
    IN IF /\ hk >= 1 /\ Len(s) >= hk + 1 /\ s[hk + 1] = ":"
          /\ mk >= 1 /\ mpos + mk = Len(s) + 1
          /\ h \in 0..23 /\ m \in 0..59
       THEN Some(<<h, m>>)
       ELSE None

\* ReservationResponse::from
ReservationResponse(reserva) ==
    [id |-> to_hex(reserva.id),
     id_restaurante |-> to_hex(reserva.id_restaurante),
     id_mesa |-> to_hex(reserva.id_mesa),
     nombre_cliente |-> reserva.nombre_cliente,
     email_cliente |-> reserva.email_cliente,
     telefono_cliente |-> reserva.telefono_cliente,
     numero_personas |-> reserva.numero_personas,
     fecha |-> reserva.fecha,
     hora |-> reserva.hora,
     estado |-> reserva.estado]

FechaCanonical == <<"2", "0", "2", "4", "-", "1", "2", "-", "0", "5">>
FechaUnpadded == <<"2", "0", "2", "4", "-", "1", "2", "-", "5">>
FechaSlashes == <<"0", "5", "/", "1", "2", "/", "2", "0", "2", "4">>
FechaNoSuchDay == <<"2", "0", "2", "3", "-", "0", "2", "-", "2", "9">>
HoraEvening == <<"2", "0", ":", "0", "0">>
HoraLate == <<"2", "1", ":", "3", "0">>
HoraWords == <<"8", "p", "m">>

ValidReservationBody ==
    [id_mesa |-> UnknownId,
     nombre_cliente |-> <<"A", "n", "a">>,
     email_cliente |-> <<"a", "@", "b", ".", "c">>,
     telefono_cliente |-> <<"6", "0", "0">>,
     numero_personas |-> 3,
     fecha |-> FechaCanonical,
     hora |-> HoraEvening]

\* request bodies: the valid ones, and each validation rule broken on its own
MakeReservationInputs ==
    {[b EXCEPT !.id_mesa = to_hex(m.id)] :
        m \in mesas,
        b \in {ValidReservationBody,
               [ValidReservationBody EXCEPT !.fecha = FechaUnpadded],
               [ValidReservationBody EXCEPT !.numero_personas = 5, !.hora = HoraLate]}}
    \cup {ValidReservationBody,
          [ValidReservationBody EXCEPT !.id_mesa = NotAnId],
          [ValidReservationBody EXCEPT !.nombre_cliente = <<" ", " ">>],
          [ValidReservationBody EXCEPT !.email_cliente = <<"a", "@", "b">>],
          [ValidReservationBody EXCEPT !.email_cliente = <<"a", ".", "b">>],
          [ValidReservationBody EXCEPT !.telefono_cliente = << >>],
          [ValidReservationBody EXCEPT !.numero_personas = 0],
          [ValidReservationBody EXCEPT !.fecha = FechaSlashes],
          [ValidReservationBody EXCEPT !.fecha = FechaNoSuchDay],
          [ValidReservationBody EXCEPT !.hora = HoraWords]}

\* (mutant) a table that is not reservable is refused
make_reservation_on_table_reservable_only(restaurante_id, data, mesa) ==
    IF mesa.id_restaurante # restaurante_id
    THEN [resp |-> Reply("make_reservation", "Unauthorized"), suspend |-> None]
    ELSE IF ~mesa.reservable
    THEN [resp |-> Reply("make_reservation", "Validation"), suspend |-> None]
    ELSE IF IsSome(mesa.min_personas) /\ data.numero_personas < mesa.min_personas[1]
    THEN [resp |-> Reply("make_reservation", "Validation"), suspend |-> None]
    ELSE IF IsSome(mesa.max_personas) /\ data.numero_personas > mesa.max_personas[1]
    THEN [resp |-> Reply("make_reservation", "Validation"), suspend |-> None]
    ELSE [resp |-> NoResp,
          suspend |-> Some([pc |-> "reserva_find_conflict",
                            restaurante_id |-> restaurante_id,
                            id_mesa |-> mesa.id,
                            data |-> data])]

\* (mutant) the maximum of the table is not compared
make_reservation_on_table_no_max(restaurante_id, data, mesa) ==
    IF mesa.id_restaurante # restaurante_id
    THEN [resp |-> Reply("make_reservation", "Unauthorized"), suspend |-> None]
    ELSE IF IsSome(mesa.min_personas) /\ data.numero_personas < mesa.min_personas[1]
    THEN [resp |-> Reply("make_reservation", "Validation"), suspend |-> None]
    ELSE [resp |-> NoResp,
          suspend |-> Some([pc |-> "reserva_find_conflict",
                            restaurante_id |-> restaurante_id,
                            id_mesa |-> mesa.id,
                            data |-> data])]

\* (mutant) the owner of the table is not compared
make_reservation_on_table_any_owner(restaurante_id, data, mesa) ==
    IF IsSome(mesa.min_personas) /\ data.numero_personas < mesa.min_personas[1]
    THEN [resp |-> Reply("make_reservation", "Validation"), suspend |-> None]
    ELSE IF IsSome(mesa.max_personas) /\ data.numero_personas > mesa.max_personas[1]
    THEN [resp |-> Reply("make_reservation", "Validation"), suspend |-> None]
    ELSE [resp |-> NoResp,
          suspend |-> Some([pc |-> "reserva_find_conflict",
                            restaurante_id |-> restaurante_id,
                            id_mesa |-> mesa.id,
                            data |-> data])]

\* make_reservation after the table was found
make_reservation_on_table(restaurante_id, data, mesa) ==
    IF mesa.id_restaurante # restaurante_id
    THEN [resp |-> Reply("make_reservation", "Unauthorized"), suspend |-> None]
    ELSE IF IsSome(mesa.min_personas) /\ data.numero_personas < mesa.min_personas[1]
    THEN [resp |-> Reply("make_reservation", "Validation"), suspend |-> None]
    ELSE IF IsSome(mesa.max_personas) /\ data.numero_personas > mesa.max_personas[1]
    THEN [resp |-> Reply("make_reservation", "Validation"), suspend |-> None]
    ELSE [resp |-> NoResp,
          suspend |-> Some([pc |-> "reserva_find_conflict",
                            restaurante_id |-> restaurante_id,
                            id_mesa |-> mesa.id,
                            data |-> data])]

\* make_reservation up to the .await of the conflict find_one
make_reservation(header, data) ==
    IF Authenticate(header) = {}
    THEN {[resp |-> Reply("make_reservation", "Unauthorized"), suspend |-> None]}
    ELSE IF \/ TrimIsEmpty(data.nombre_cliente)
            \/ ~validate_email(data.email_cliente)
            \/ TrimIsEmpty(data.telefono_cliente)
            \/ data.numero_personas <= 0
            \/ ~IsSome(validate_date(data.fecha))
            \/ ~IsSome(validate_time(data.hora))
            \/ ~IsSome(parse_str(data.id_mesa))
    THEN {[resp |-> Reply("make_reservation", "Validation"), suspend |-> None]}
    ELSE LET found == {m \in mesas : m.id = parse_str(data.id_mesa)[1]}
         IN IF found = {}
            THEN {[resp |-> Reply("make_reservation", "NotFound"), suspend |-> None]}
            ELSE {make_reservation_on_table(restaurante_id, data, mesa) :
                     restaurante_id \in Authenticate(header), mesa \in found}

\* (mutant) only pending reservations block the slot
ConflictFilterPendingOnly(id_mesa, fecha, hora) ==
    {r \in reservas :
        /\ r.id_mesa = id_mesa
        /\ r.fecha = fecha
        /\ r.hora = hora
        /\ r.estado = "pendiente"}

\* the conflict find_one of make_reservation
ConflictFilter(id_mesa, fecha, hora) ==
    {r \in reservas :
        /\ r.id_mesa = id_mesa
        /\ r.fecha = fecha
        /\ r.hora = hora
        /\ r.estado # "cancelada"}

\* make_reservation from the conflict find_one to the .await of insert_one
make_reservation_find_conflict(req) ==
    IF ConflictFilter(req.id_mesa, req.data.fecha, req.data.hora) # {}
    THEN {[resp |-> Reply("make_reservation", "Conflict"), suspend |-> None]}
    ELSE {[resp |-> NoResp, suspend |-> Some([req EXCEPT !.pc = "reserva_insert"])]}

\* (mutant) the new reservation takes its estado from the restaurant's
\* confirmar_automaticamente flag
NewReservaAutoConfirm(req) ==
    [id |-> nextId,
     id_restaurante |-> req.restaurante_id,
     id_mesa |-> req.id_mesa,
     nombre_cliente |-> req.data.nombre_cliente,
     email_cliente |-> req.data.email_cliente,
     telefono_cliente |-> req.data.telefono_cliente,
     numero_personas |-> req.data.numero_personas,
     fecha |-> req.data.fecha,
     hora |-> req.data.hora,
     estado |-> IF \E r \in restaurants :
                      r.id = req.restaurante_id /\ r.confirmar_automaticamente
                THEN "confirmada" ELSE "pendiente"]

\* the Reserva that make_reservation builds for insert_one
NewReserva(req) ==
    [id |-> nextId,
     id_restaurante |-> req.restaurante_id,
     id_mesa |-> req.id_mesa,
     nombre_cliente |-> req.data.nombre_cliente,
     email_cliente |-> req.data.email_cliente,
     telefono_cliente |-> req.data.telefono_cliente,
     numero_personas |-> req.data.numero_personas,
     fecha |-> req.data.fecha,
     hora |-> req.data.hora,
     estado |-> "pendiente"]

\* make_reservation from insert_one to the response
make_reservation_insert(req) ==
    LET reserva == NewReserva(req)
    IN IF ReservaDuplicateKey(reserva)
       THEN {[resp |-> StoreFailure("make_reservation", "Internal",
                                    "Error guardando reserva", DuplicateKeyError),
              reservas |-> reservas]}
       ELSE {[resp |-> [Reply("make_reservation", "Ok") EXCEPT
                          !.id = Some(to_hex(reserva.id)),
                          !.estado = "pendiente"],
              reservas |-> reservas \cup {reserva}]}

ReservationQueryInputs ==
    {[fecha |-> None, estado |-> None],
     [fecha |-> Some(FechaCanonical), estado |-> None],
     [fecha |-> None, estado |-> Some("pendiente")],
     [fecha |-> Some(FechaUnpadded), estado |-> Some("cancelada")]}

\* (mutant) the estado query parameter is not added to the filter
get_reservations_any_estado(header, query) ==
    IF Authenticate(header) = {}
    THEN {[resp |-> Reply("get_reservations", "Unauthorized")]}
    ELSE {LET found == {r \in reservas :
                           /\ r.id_restaurante = user_id
                           /\ IsSome(query.fecha) => r.fecha = query.fecha[1]}
          IN [resp |-> [Reply("get_reservations", "Ok") EXCEPT
                          !.items = [i \in 1..Cardinality(found) |->
                                       ReservationResponse(InIdOrder(found)[i])]]]
          : user_id \in Authenticate(header)}

\* get_reservations
get_reservations(header, query) ==
    IF Authenticate(header) = {}
    THEN {[resp |-> Reply("get_reservations", "Unauthorized")]}
    ELSE {LET found == {r \in reservas :
                           /\ r.id_restaurante = user_id
                           /\ IsSome(query.fecha) => r.fecha = query.fecha[1]
                           /\ IsSome(query.estado) => r.estado = query.estado[1]}
          IN [resp |-> [Reply("get_reservations", "Ok") EXCEPT
                          !.items = [i \in 1..Cardinality(found) |->
                                       ReservationResponse(InIdOrder(found)[i])]]]
          : user_id \in Authenticate(header)}

\* (mutant) the filter does not look at the estado
ConfirmFilterAnyEstado(reservation_id, user_id) ==
    {r \in reservas :
        /\ r.id = reservation_id
        /\ r.id_restaurante = user_id}

\* (mutant) the filter does not look at the owner
ConfirmFilterAnyOwner(reservation_id, user_id) ==
    {r \in reservas :
        /\ r.id = reservation_id
        /\ r.estado = "pendiente"}

\* (mutant) the reservation can only be confirmed while its table exists
ConfirmFilterTableExists(reservation_id, user_id) ==
    {r \in reservas :
        /\ r.id = reservation_id
        /\ r.id_restaurante = user_id
        /\ r.estado = "pendiente"
        /\ \E m \in mesas : m.id = r.id_mesa}

\* the filter of confirm_reservation's update_one
ConfirmFilter(reservation_id, user_id) ==
    {r \in reservas :
        /\ r.id = reservation_id
        /\ r.id_restaurante = user_id
        /\ r.estado = "pendiente"}

\* (mutant) the filter does not exclude cancelled reservations
CancelFilterAnyEstado(reservation_id, user_id) ==
    {r \in reservas :
        /\ r.id = reservation_id
        /\ r.id_restaurante = user_id}

\* (mutant) the filter does not look at the owner
CancelFilterAnyOwner(reservation_id, user_id) ==
    {r \in reservas :
        /\ r.id = reservation_id
        /\ r.estado # "cancelada"}

\* the filter of cancel_reservation's update_one
CancelFilter(reservation_id, user_id) ==
    {r \in reservas :
        /\ r.id = reservation_id
        /\ r.id_restaurante = user_id
        /\ r.estado # "cancelada"}

\* (mutant) update_many on the restaurant of the matched document: every
\* reservation of that restaurant gets the estado
SetEstadoOfRestaurant(matched, estado) ==
    LET hit == {r \in reservas : \E m \in matched : r.id_restaurante = m.id_restaurante}
    IN (reservas \ hit) \cup {[r EXCEPT !.estado = estado] : r \in hit}

\* update_one with {"$set": {"estado": estado}}: the first document matching
\* the filter is modified (matched holds at most one, _id being unique)
SetEstado(matched, estado) ==
    (reservas \ matched) \cup {[r EXCEPT !.estado = estado] : r \in matched}

\* (mutant) the reservation is looked up by id first and a reservation of
\* another restaurant is answered with Unauthorized
confirm_reservation_tells_foreign(header, path) ==
    IF Authenticate(header) = {}
    THEN {[resp |-> Reply("confirm_reservation", "Unauthorized"), reservas |-> reservas]}
    ELSE {IF ~IsSome(parse_str(path))
          THEN [resp |-> Reply("confirm_reservation", "Validation"),
                reservas |-> reservas]
          ELSE LET reservation_id == parse_str(path)[1]
                   matched == ConfirmFilter(reservation_id, user_id)
          IN IF \E r \in reservas : r.id = reservation_id /\ r.id_restaurante # user_id
             THEN [resp |-> Reply("confirm_reservation", "Unauthorized"),
                   reservas |-> reservas]
             ELSE IF matched = {}
             THEN [resp |-> Reply("confirm_reservation", "NotFound"),
                   reservas |-> reservas]
             ELSE [resp |-> [Reply("confirm_reservation", "Ok") EXCEPT
                               !.id = Some(to_hex(reservation_id)),
                               !.estado = "confirmada"],
                   reservas |-> SetEstado(matched, "confirmada")]
          : user_id \in Authenticate(header)}

\* confirm_reservation
confirm_reservation(header, path) ==
    IF Authenticate(header) = {}
    THEN {[resp |-> Reply("confirm_reservation", "Unauthorized"), reservas |-> reservas]}
    ELSE {IF ~IsSome(parse_str(path))
          THEN [resp |-> Reply("confirm_reservation", "Validation"),
                reservas |-> reservas]
          ELSE LET reservation_id == parse_str(path)[1]
                   matched == ConfirmFilter(reservation_id, user_id)
          IN IF matched = {}
             THEN [resp |-> Reply("confirm_reservation", "NotFound"),
                   reservas |-> reservas]
             ELSE [resp |-> [Reply("confirm_reservation", "Ok") EXCEPT
                               !.id = Some(to_hex(reservation_id)),
                               !.estado = "confirmada"],
                   reservas |-> SetEstado(matched, "confirmada")]
          : user_id \in Authenticate(header)}

\* cancel_reservation
cancel_reservation(header, path) ==
    IF Authenticate(header) = {}
    THEN {[resp |-> Reply("cancel_reservation", "Unauthorized"), reservas |-> reservas]}
    ELSE {IF ~IsSome(parse_str(path))
          THEN [resp |-> Reply("cancel_reservation", "Validation"),
                reservas |-> reservas]
          ELSE LET reservation_id == parse_str(path)[1]
                   matched == CancelFilter(reservation_id, user_id)
          IN IF matched = {}
             THEN [resp |-> Reply("cancel_reservation", "NotFound"),
                   reservas |-> reservas]
             ELSE [resp |-> [Reply("cancel_reservation", "Ok") EXCEPT
                               !.id = Some(to_hex(reservation_id)),
                               !.estado = "cancelada"],
                   reservas |-> SetEstado(matched, "cancelada")]
          : user_id \in Authenticate(header)}

MakeReservationFindTable(header, data) ==
    /\ \E o \in make_reservation(header, data) : Continue(None, o.suspend)
    /\ UNCHANGED <<indexed, store, nextId, cancels>>

MakeReservationFindConflict(req) ==
    /\ req.pc = "reserva_find_conflict"
    /\ \E o \in make_reservation_find_conflict(req) : Continue(Some(req), o.suspend)
    /\ UNCHANGED <<indexed, store, nextId, cancels>>

MakeReservationInsert(req) ==
    /\ req.pc = "reserva_insert"
    /\ Continue(Some(req), None)
    /\ \E o \in make_reservation_insert(req) :
         /\ reservas' = o.reservas
         /\ nextId' = IF o.resp.kind = "Ok" THEN nextId + 1 ELSE nextId
    /\ UNCHANGED <<indexed, restaurants, mesas, cancels>>

GetReservations(header, query) ==
    /\ get_reservations(header, query) # {}
    /\ UNCHANGED vars

ConfirmReservation(header, path) ==
    /\ \E o \in confirm_reservation(header, path) : reservas' = o.reservas
    /\ UNCHANGED <<indexed, restaurants, mesas, nextId, inflight, cancels>>

CancelReservation(header, path) ==
    /\ \E o \in cancel_reservation(header, path) :
         /\ reservas' = o.reservas
         /\ cancels' = IF o.resp.kind = "Ok"
                       THEN cancels (+) SetToBag({parse_str(path)[1]})
                       ELSE cancels
    /\ UNCHANGED <<indexed, restaurants, mesas, nextId, inflight>>

-----------------------------------------------------------------------------
(* The system *)

TableRequests ==
    Requests(NewTableInputs, CHOOSE d \in NewTableInputs : d.id_restaurante = UnknownId)
QueryRequests == Requests(QueryParamsInputs, [id_restaurante |-> UnknownId])
ReservationRequests == Requests(MakeReservationInputs, ValidReservationBody)
ListRequests == Requests(ReservationQueryInputs, [fecha |-> None, estado |-> None])
PathRequests == Requests(IdTexts(reservas), UnknownId)

\* main(): the store is empty, create_indexes has run (all of it, or up to
\* its first failing call, which main() only logs), no request is in progress
Init ==
    /\ indexed \in 0..3
    /\ restaurants = {}
    /\ mesas = {}
    /\ reservas = {}
    /\ nextId = 1
    /\ inflight = EmptyBag
    /\ cancels = EmptyBag

Next ==
    \/ \E data \in RegisterInputs : RegisterCheck(data)
    \/ \E data \in LoginInputs : Login(data)
    \/ \E rq \in TableRequests : CreateTableCheck(rq[1], rq[2])
    \/ \E rq \in QueryRequests : GetTables(rq[1], rq[2])
    \/ \E rq \in QueryRequests : ClearTables(rq[1], rq[2])
    \/ \E rq \in ReservationRequests : MakeReservationFindTable(rq[1], rq[2])
    \/ \E rq \in ListRequests : GetReservations(rq[1], rq[2])
    \/ \E rq \in PathRequests : ConfirmReservation(rq[1], rq[2])
    \/ \E rq \in PathRequests : CancelReservation(rq[1], rq[2])
    \/ \E req \in BagToSet(inflight) :
          \/ RegisterInsert(req)
          \/ CreateTableInsert(req)
          \/ MakeReservationFindConflict(req)
          \/ MakeReservationInsert(req)

Spec == Init /\ [][Next]_vars

-----------------------------------------------------------------------------
(* Properties *)

\* two stored reservations in the same (id_mesa, fecha, hora) slot
SameSlot(r1, r2) ==
    r1.id_mesa = r2.id_mesa /\ r1.fecha = r2.fecha /\ r1.hora = r2.hora

Active(r) == r.estado # "cancelada"

\* the requests suspended at a given await
InflightAt(pc) == {req \in BagToSet(inflight) : req.pc = pc}

\* C1: for every (table, date, time) slot, at most one stored reservation
\* has a status other than cancelled.
C1_OneActivePerSlot ==
    \A r1, r2 \in reservas :
        (SameSlot(r1, r2) /\ Active(r1) /\ Active(r2)) => r1 = r2

\* the same, in a deployment whose reservas index was created
C1_OneActivePerSlotWhenIndexed == ReservasIndexed => C1_OneActivePerSlot

\* C2: the status of a stored reservation only ever changes pending ->
\* confirmed, pending -> cancelled or confirmed -> cancelled; in particular a
\* cancelled reservation keeps its status for ever.
C2_StatusTransitions ==
    [][\A r \in reservas : \A q \in reservas' :
          q.id = r.id =>
             \/ q.estado = r.estado
             \/ r.estado = "pendiente" /\ q.estado = "confirmada"
             \/ r.estado = "pendiente" /\ q.estado = "cancelada"
             \/ r.estado = "confirmada" /\ q.estado = "cancelada"]_vars

C2_Witness ==
    \E r \in reservas : r.estado = "cancelada" /\ r.id_restaurante \in {x.id : x \in restaurants}

\* C3: a create-reservation request that has passed the input, table and
\* capacity checks and whose slot holds a non-cancelled reservation is
\* answered with a conflict error, and nothing is stored for it.
C3_ConflictOnTakenSlot ==
    [][\A req \in InflightAt("reserva_find_conflict") :
          (/\ \E r \in reservas :
                 /\ r.id_mesa = req.id_mesa
                 /\ r.fecha = req.data.fecha
                 /\ r.hora = req.data.hora
                 /\ Active(r)
           /\ MakeReservationFindConflict(req))
          => /\ \A o \in make_reservation_find_conflict(req) :
                   o.resp.kind = "Conflict" /\ o.suspend = None
             /\ reservas' = reservas
             /\ inflight' = inflight (-) SetToBag({req})]_vars

C3_Witness ==
    \E req \in InflightAt("reserva_find_conflict") :
        \E r \in reservas :
            /\ r.id_mesa = req.id_mesa
            /\ r.fecha = req.data.fecha
            /\ r.hora = req.data.hora
            /\ r.estado = "confirmada"

\* what the caller of a confirm or cancel request must find: a reservation
\* with the id of the path, owned by the caller
Owned(user_id, path) ==
    {r \in reservas : to_hex(r.id) = path /\ r.id_restaurante = user_id}

C5_CancelExactlyActive ==
    /\ \A header \in GoodHeaders : \A user_id \in Authenticate(header) :
       \A path \in IdTexts(reservas) \ {NotAnId} :
       \A o \in cancel_reservation(header, path) :
           LET active == {r \in Owned(user_id, path) : r.estado \in {"pendiente", "confirmada"}}
           IN IF active # {}
              THEN /\ o.resp.kind = "Ok"
                   /\ o.resp.estado = "cancelada"
                   /\ o.reservas = (reservas \ active)
                                      \cup {[r EXCEPT !.estado = "cancelada"] : r \in active}
              ELSE /\ o.resp.kind = "NotFound"
                   /\ o.reservas = reservas
    /\ \A id \in BagToSet(cancels) :
          /\ CopiesIn(id, cancels) = 1
          /\ \A r \in reservas : r.id = id => r.estado = "cancelada"

C5_Witness ==
    \E r \in reservas :
        /\ r.estado = "cancelada"
        /\ CopiesIn(r.id, cancels) = 1
        /\ \E header \in GoodHeaders :
              /\ r.id_restaurante \in Authenticate(header)
              /\ \A o \in cancel_reservation(header, to_hex(r.id)) :
                    o.resp.kind = "NotFound"

\* the documents of a collection that user_id does not own
Foreign(collection, user_id) == {d \in collection : d.id_restaurante # user_id}

\* C6: a request authenticated as restaurant A never returns, modifies or
\* deletes a table or a reservation of another restaurant, and what it
\* creates belongs to A.
C6_TenantIsolation ==
    /\ \A header \in GoodHeaders : \A user_id \in Authenticate(header) :
          /\ \A query \in QueryParamsInputs :
                /\ \A o \in get_tables(header, query) :
                      \A i \in DOMAIN o.resp.items :
                          o.resp.items[i].id_restaurante = to_hex(user_id)
                /\ \A o \in clear_tables(header, query) :
                      Foreign(o.mesas, user_id) = Foreign(mesas, user_id)
          /\ \A query \in ReservationQueryInputs :
                \A o \in get_reservations(header, query) :
                    \A i \in DOMAIN o.resp.items :
                        \E r \in reservas :
                            /\ to_hex(r.id) = o.resp.items[i].id
                            /\ r.id_restaurante = user_id
          /\ \A path \in IdTexts(reservas) :
                \A o \in confirm_reservation(header, path) \cup cancel_reservation(header, path) :
                    Foreign(o.reservas, user_id) = Foreign(reservas, user_id)
          /\ \A data \in NewTableInputs :
                \A o \in create_table(header, data) :
                    IsSome(o.suspend) => o.suspend[1].id_restaurante = user_id
          /\ \A data \in MakeReservationInputs :
                \A o \in make_reservation(header, data) :
                    IsSome(o.suspend) =>
                       /\ o.suspend[1].restaurante_id = user_id
                       /\ \A m \in mesas :
                             m.id = o.suspend[1].id_mesa => m.id_restaurante = user_id
    /\ \A req \in InflightAt("mesa_insert") :
          \A o \in create_table_insert(req) :
              /\ mesas \subseteq o.mesas
              /\ \A m \in o.mesas \ mesas : m.id_restaurante = req.id_restaurante
    /\ \A req \in InflightAt("reserva_find_conflict") \cup InflightAt("reserva_insert") :
          /\ \A o \in make_reservation_insert(req) :
                /\ reservas \subseteq o.reservas
                /\ \A r \in o.reservas \ reservas : r.id_restaurante = req.restaurante_id
          /\ \A m \in mesas : m.id = req.id_mesa => m.id_restaurante = req.restaurante_id

C6_Witness ==
    \E a, b \in restaurants :
        /\ a.id # b.id
        /\ \E m \in mesas : m.id_restaurante = b.id
        /\ \E r \in reservas : r.id_restaurante = b.id /\ r.estado = "pendiente"
        /\ \E header \in GoodHeaders :
              /\ Authenticate(header) = {a.id}
              /\ \A o \in get_reservations(header, [fecha |-> None, estado |-> None]) :
                    o.resp.kind = "Ok" /\ o.resp.items = << >>

\* a header the specification rejects: missing, not starting with "Bearer ",
\* or carrying a token that no restaurant holds
Rejected(header) ==
    \/ header = None
    \/ ~StartsWith(header[1], BearerPrefix)
    \/ \A r \in restaurants :
          BearerPrefix \o r.access_token # header[1]

\* every outcome of a protected operation under a header, on every body
ProtectedOutcomes(header) ==
    UNION {
      {[kind |-> o.resp.kind, effect |-> IsSome(o.suspend)] :
          o \in UNION {create_table(header, data) : data \in NewTableInputs}},
      {[kind |-> o.resp.kind, effect |-> FALSE] :
          o \in UNION {get_tables(header, query) : query \in QueryParamsInputs}},
      {[kind |-> o.resp.kind, effect |-> o.mesas # mesas] :
          o \in UNION {clear_tables(header, query) : query \in QueryParamsInputs}},
      {[kind |-> o.resp.kind, effect |-> IsSome(o.suspend)] :
          o \in UNION {make_reservation(header, data) : data \in MakeReservationInputs}},
      {[kind |-> o.resp.kind, effect |-> FALSE] :
          o \in UNION {get_reservations(header, query) : query \in ReservationQueryInputs}},
      {[kind |-> o.resp.kind, effect |-> o.reservas # reservas] :
          o \in UNION {confirm_reservation(header, path) : path \in IdTexts(reservas)}},
      {[kind |-> o.resp.kind, effect |-> o.reservas # reservas] :
          o \in UNION {cancel_reservation(header, path) : path \in IdTexts(reservas)}}}

C9_UniqueRestaurants ==
    /\ \A data \in RegisterInputs :
          (/\ data.name # "" /\ data.objid_pispas # ""
           /\ Len(data.password) >= MinPasswordLen
           /\ \E r \in restaurants :
                 r.nombre = data.name \/ r.objid_pispas = data.objid_pispas)
          => \A o \in register_restaurant(data) :
                 o.resp.kind = "Conflict" /\ o.suspend = None
    /\ \A r1, r2 \in restaurants :
          (r1.nombre = r2.nombre \/ r1.objid_pispas = r2.objid_pispas) => r1 = r2

\* C10: creating a table whose name equals that of a stored table of the
\* same restaurant is answered with a conflict error and stores nothing,
\* while a name that only other restaurants use is accepted; no two stored
\* tables of one restaurant share a name.
C10_UniqueTableNames ==
    /\ \A header \in GoodHeaders : \A data \in NewTableInputs :
          (/\ data.forma \in {"cuadrado", "circulo"}
           /\ ~(/\ IsSome(data.min_personas) /\ IsSome(data.max_personas)
                /\ data.min_personas[1] > data.max_personas[1])
           /\ \E m \in mesas :
                 /\ m.id_restaurante \in Authenticate(header)
                 /\ to_hex(m.id_restaurante) = data.id_restaurante
                 /\ m.nombre = data.nombre)
          => \A o \in create_table(header, data) :
                 o.resp.kind = "Conflict" /\ o.suspend = None
    /\ \A req \in InflightAt("mesa_insert") :
          (\A m \in mesas :
              m.nombre = req.data.nombre => m.id_restaurante # req.id_restaurante)
          => \A o \in create_table_insert(req) :
                 o.resp.kind = "Ok" /\ Cardinality(o.mesas \ mesas) = 1
    /\ \A m1, m2 \in mesas :
          (m1.id_restaurante = m2.id_restaurante /\ m1.nombre = m2.nombre) => m1 = m2

\* request bodies the handlers are also tried on, beyond those of Next: a
\* party of one for every stored table
MakeReservationProbes ==
    MakeReservationInputs
    \cup {[ValidReservationBody EXCEPT !.id_mesa = to_hex(m.id), !.numero_personas = 1] :
            m \in mesas}

WithinBounds(n, mesa) ==
    /\ IsSome(mesa.min_personas) => n >= mesa.min_personas[1]
    /\ IsSome(mesa.max_personas) => n <= mesa.max_personas[1]

\* C11: a create-reservation request for an own table whose party size is
\* below the table's minimum or above its maximum (when set) is answered
\* with a validation error and starts no write; every stored reservation
\* whose table still exists has a party size within the table's set bounds.
C11_PartySizeWithinBounds ==
    /\ \A header \in GoodHeaders : \A data \in MakeReservationProbes :
       \A o \in make_reservation(header, data) :
           /\ (\E m \in mesas :
                  /\ to_hex(m.id) = data.id_mesa
                  /\ m.id_restaurante \in Authenticate(header)
                  /\ ~WithinBounds(data.numero_personas, m))
              => o.resp.kind = "Validation" /\ o.suspend = None
           /\ IsSome(o.suspend) =>
                 \A m \in mesas :
                     m.id = o.suspend[1].id_mesa =>
                        WithinBounds(o.suspend[1].data.numero_personas, m)
    /\ \A req \in InflightAt("reserva_find_conflict") \cup InflightAt("reserva_insert") :
          \A m \in mesas : m.id = req.id_mesa => WithinBounds(req.data.numero_personas, m)
    /\ \A r \in reservas :
          \A m \in mesas : m.id = r.id_mesa => WithinBounds(r.numero_personas, m)

C11_Witness ==
    \E m \in mesas :
        /\ IsSome(m.min_personas) /\ IsSome(m.max_personas)
        /\ \E r \in reservas : r.id_mesa = m.id
        /\ \E header \in GoodHeaders : \E data \in MakeReservationProbes :
              /\ data.id_mesa = to_hex(m.id)
              /\ data.numero_personas > m.max_personas[1]
              /\ \A o \in make_reservation(header, data) : o.resp.kind = "Validation"
        /\ \E header \in GoodHeaders : \E data \in MakeReservationProbes :
              /\ data.id_mesa = to_hex(m.id)
              /\ data.numero_personas > 0
              /\ data.numero_personas < m.min_personas[1]
              /\ \A o \in make_reservation(header, data) : o.resp.kind = "Validation"

\* the error kinds of a request that was refused
Refusals == {"Validation", "Unauthorized", "NotFound", "Conflict"}

\* C12: a request that ends in a validation, authorization, not-found or
\* conflict error has written nothing: the handler ends there, before its
\* insert, or its store call changed no document; and an insert that
\* succeeds adds exactly one whole document.
C12_ErrorsWriteNothing ==
    /\ \A data \in RegisterInputs : \A o \in register_restaurant(data) :
          o.resp.kind \in Refusals => o.suspend = None
    /\ \A header \in Headers :
          /\ \A data \in NewTableInputs : \A o \in create_table(header, data) :
                o.resp.kind \in Refusals => o.suspend = None
          /\ \A data \in MakeReservationProbes : \A o \in make_reservation(header, data) :
                o.resp.kind \in Refusals => o.suspend = None
          /\ \A query \in QueryParamsInputs : \A o \in clear_tables(header, query) :
                o.resp.kind \in Refusals => o.mesas = mesas
          /\ \A path \in IdTexts(reservas) :
                \A o \in confirm_reservation(header, path) \cup cancel_reservation(header, path) :
                    o.resp.kind \in Refusals => o.reservas = reservas
    /\ \A req \in InflightAt("reserva_find_conflict") :
          \A o \in make_reservation_find_conflict(req) :
              o.resp.kind \in Refusals => o.suspend = None
    /\ \A req \in InflightAt("register_insert") :
          \A o \in register_restaurant_insert(req) :
              IF o.resp.kind = "Ok"
              THEN restaurants \subseteq o.restaurants
                      /\ Cardinality(o.restaurants \ restaurants) = 1
              ELSE o.restaurants = restaurants
    /\ \A req \in InflightAt("mesa_insert") :
          \A o \in create_table_insert(req) :
              IF o.resp.kind = "Ok"
              THEN mesas \subseteq o.mesas /\ Cardinality(o.mesas \ mesas) = 1
              ELSE o.mesas = mesas
    /\ \A req \in InflightAt("reserva_insert") :
          \A o \in make_reservation_insert(req) :
              IF o.resp.kind = "Ok"
              THEN reservas \subseteq o.reservas /\ Cardinality(o.reservas \ reservas) = 1
              ELSE o.reservas = reservas

C12_Witness ==
    /\ \E header \in GoodHeaders : \E query \in QueryParamsInputs :
          /\ \E m \in mesas : to_hex(m.id_restaurante) = query.id_restaurante
          /\ \E o \in clear_tables(header, query) : o.resp.kind = "Unauthorized"
    /\ \E header \in GoodHeaders : \E path \in IdTexts(reservas) :
          \E o \in confirm_reservation(header, path) : o.resp.kind = "NotFound"

\* every result a handler can return in this state, over all headers and bodies
Responses ==
    {o.resp : o \in
        UNION ({register_restaurant(data) : data \in RegisterInputs}
               \cup {login_restaurant(data) : data \in LoginInputs}
               \cup {register_restaurant_insert(req) : req \in InflightAt("register_insert")}
               \cup {create_table_insert(req) : req \in InflightAt("mesa_insert")}
               \cup {make_reservation_find_conflict(req) :
                       req \in InflightAt("reserva_find_conflict")}
               \cup {make_reservation_insert(req) : req \in InflightAt("reserva_insert")}
               \cup UNION {{create_table(header, data) : data \in NewTableInputs}
                           \cup {get_tables(header, query) : query \in QueryParamsInputs}
                           \cup {clear_tables(header, query) : query \in QueryParamsInputs}
                           \cup {make_reservation(header, data) : data \in MakeReservationProbes}
                           \cup {get_reservations(header, query) :
                                   query \in ReservationQueryInputs}
                           \cup {confirm_reservation(header, path) : path \in IdTexts(reservas)}
                           \cup {cancel_reservation(header, path) : path \in IdTexts(reservas)}
                           : header \in Headers})}
    \ {NoResp}

\* C13: every error a handler returns is answered with the status code of
\* its kind: validation 400, unauthorized 401, not found 404, conflict 409,
\* internal or storage error 500.
C13_StatusOfEachKind ==
    \A resp \in Responses :
        /\ resp.kind = "Validation" => HttpResponse(resp).status = 400
        /\ resp.kind = "Unauthorized" => HttpResponse(resp).status = 401
        /\ resp.kind = "NotFound" => HttpResponse(resp).status = 404
        /\ resp.kind = "Conflict" => HttpResponse(resp).status = 409
        /\ resp.kind \in {"Internal", "Database"} => HttpResponse(resp).status = 500

\* C14: an insert that the store refuses for its unique index, the
\* pre-check of the request having passed, is answered with a conflict error.
C14_RefusedInsertIsConflict ==
    /\ \A req \in InflightAt("register_insert") :
          \A o \in register_restaurant_insert(req) :
              o.resp.kind # "Ok" => o.resp.kind = "Conflict"
    /\ \A req \in InflightAt("mesa_insert") :
          \A o \in create_table_insert(req) :
              o.resp.kind # "Ok" => o.resp.kind = "Conflict"
    /\ \A req \in InflightAt("reserva_insert") :
          \A o \in make_reservation_insert(req) :
              o.resp.kind # "Ok" => o.resp.kind = "Conflict"

\* C15: the body answered for an internal or storage error never carries
\* the text of the driver's error.
C15_NoDriverTextInBody ==
    \A resp \in Responses :
        resp.kind \in {"Internal", "Database"} =>
           \A i \in DOMAIN HttpResponse(resp).message :
               HttpResponse(resp).message[i] # DuplicateKeyError

\* C16: login is answered with a validation error when the name or the
\* secret is empty, with an unauthorized error when no stored restaurant has
\* exactly that name and that secret, and otherwise with the token and the
\* id of one restaurant that has both.
C16_Login ==
    \A data \in LoginInputs :
        /\ login_restaurant(data) # {}
        /\ \A o \in login_restaurant(data) :
              IF data.name = "" \/ data.password = ""
              THEN o.resp.kind = "Validation"
              ELSE IF \A r \in restaurants :
                         r.nombre # data.name \/ r.password # data.password
              THEN o.resp.kind = "Unauthorized"
              ELSE /\ o.resp.kind = "Ok"
                   /\ \E r \in restaurants :
                         /\ r.nombre = data.name
                         /\ r.password = data.password
                         /\ o.resp.id = Some(to_hex(r.id))
                         /\ o.resp.access_token = Some(r.access_token)

C16_Witness ==
    \E r \in restaurants :
        /\ \E data \in LoginInputs :
              /\ data.name = r.nombre /\ data.password = r.password
              /\ \E o \in login_restaurant(data) : o.resp.kind = "Ok"
        /\ \E data \in LoginInputs :
              /\ data.name = r.nombre /\ data.password \notin {"", r.password}
              /\ \A o \in login_restaurant(data) : o.resp.kind = "Unauthorized"

\* a successful insert of register_restaurant stores one new restaurant,
\* under the id and the token it returns, and the token is held by no
\* restaurant stored before
C17_FreshToken ==
    \A req \in InflightAt("register_insert") :
    \A o \in register_restaurant_insert(req) :
        o.resp.kind = "Ok" =>
           /\ Cardinality(o.restaurants \ restaurants) = 1
           /\ restaurants \subseteq o.restaurants
           /\ \A r \in restaurants : Some(r.access_token) # o.resp.access_token
           /\ \A r \in o.restaurants \ restaurants :
                 /\ o.resp.access_token = Some(r.access_token)
                 /\ o.resp.id = Some(to_hex(r.id))

\* no two stored restaurants share a token, and a token resolves to the
\* restaurant that was registered with it
C17_TokenResolves ==
    /\ \A r1, r2 \in restaurants : r1.access_token = r2.access_token => r1 = r2
    /\ \A r \in restaurants : validate_access_token(r.access_token) = {r.id}

\* C17: a successful registration stores exactly one new restaurant and
\* returns a token no earlier restaurant holds; no two restaurants share a
\* token; resolving the returned token, or logging in with the registered
\* name and secret, yields the id that registration returned.
C17_RegistrationIdentity ==
    /\ C17_FreshToken
    /\ C17_TokenResolves
    /\ \A r \in restaurants :
          \A o \in login_restaurant(LoginBody(r.nombre, r.password)) :
              o.resp.kind = "Ok" /\ o.resp.id = Some(to_hex(r.id))

\* registration bodies the handler is also tried on, beyond those of Next:
\* a secret of exactly the minimum length
RegisterProbes ==
    RegisterInputs \cup {RegisterBody("X3", "Diner", "123456", FALSE)}

\* C18: register is answered with a validation error, and goes no further,
\* whenever the name is empty, the secret is shorter than 6 or the external
\* reference is empty, also when a restaurant of that name or reference is
\* stored; a body with none of these faults is not a validation error.
C18_RegisterValidation ==
    \A data \in RegisterProbes :
    \A o \in register_restaurant(data) :
        IF data.name = "" \/ Len(data.password) < 6 \/ data.objid_pispas = ""
        THEN o.resp.kind = "Validation" /\ o.suspend = None
        ELSE o.resp.kind # "Validation"

C18_Witness ==
    \E r \in restaurants :
        \E data \in RegisterProbes :
            /\ data.name = r.nombre
            /\ data.objid_pispas = r.objid_pispas
            /\ Len(data.password) = 5
            /\ \A o \in register_restaurant(data) : o.resp.kind = "Validation"

WellFormedTable(t) ==
    /\ t.nombre # ""
    /\ t.forma \in {"cuadrado", "circulo"}
    /\ (IsSome(t.min_personas) /\ IsSome(t.max_personas))
          => t.min_personas[1] <= t.max_personas[1]

\* C19: create-table for the caller's own restaurant is answered with a
\* validation error, and goes no further, if the name is empty, the shape is
\* not one of the two allowed or both bounds are given with min > max; every
\* stored table has a non-empty name, an allowed shape and min <= max.
C19_TableValidation ==
    /\ \A header \in GoodHeaders : \A data \in NewTableInputs :
       \A o \in create_table(header, data) :
           (/\ IsSome(parse_str(data.id_restaurante))
            /\ parse_str(data.id_restaurante)[1] \in Authenticate(header)
            /\ ~WellFormedTable(data))
           => o.resp.kind = "Validation" /\ o.suspend = None
    /\ \A req \in InflightAt("mesa_insert") : WellFormedTable(req.data)
    /\ \A m \in mesas : WellFormedTable(m)

C19_Witness ==
    /\ \E m \in mesas : IsSome(m.min_personas) /\ IsSome(m.max_personas)
    /\ \E m \in mesas : ~IsSome(m.min_personas)
    /\ \E header \in GoodHeaders : \E data \in NewTableInputs :
          /\ IsSome(data.min_personas) /\ IsSome(data.max_personas)
          /\ data.min_personas[1] > data.max_personas[1]
          /\ \A o \in create_table(header, data) : o.resp.kind = "Validation"

\* the fields of a create-reservation body are valid
ValidFields(data) ==
    /\ ~TrimIsEmpty(data.nombre_cliente)
    /\ Contains(data.email_cliente, "@") /\ Contains(data.email_cliente, ".")
    /\ ~TrimIsEmpty(data.telefono_cliente)
    /\ data.numero_personas > 0
    /\ IsSome(validate_date(data.fecha))
    /\ IsSome(validate_time(data.hora))
    /\ IsSome(parse_str(data.id_mesa))

Listed(user_id, query) ==
    {r \in reservas :
        /\ r.id_restaurante = user_id
        /\ IsSome(query.fecha) => r.fecha = query.fecha[1]
        /\ IsSome(query.estado) => r.estado = query.estado[1]}

\* C22: list-reservations answers with exactly the stored reservations of
\* the caller's restaurant whose date equals the date filter when one is
\* given and whose status equals the status filter when one is given, each
\* of them once and as stored; the operation changes nothing.
C22_ListIsFilteredStore ==
    \A header \in GoodHeaders : \A query \in ReservationQueryInputs :
    \A user_id \in Authenticate(header) :
    \A o \in get_reservations(header, query) :
        /\ o.resp.kind = "Ok"
        /\ DOMAIN o = {"resp"}
        /\ {o.resp.items[i] : i \in DOMAIN o.resp.items}
              = {ReservationResponse(r) : r \in Listed(user_id, query)}
        /\ Len(o.resp.items) = Cardinality(Listed(user_id, query))

\* a restaurant holding a pending and a cancelled reservation under two
\* different fecha texts: the unfiltered list has both, the status filter
\* and the date filter each leave one out
C22_Witness ==
    \E header \in GoodHeaders : \E user_id \in Authenticate(header) :
        /\ \E r1, r2 \in Listed(user_id, [fecha |-> None, estado |-> None]) :
              /\ r1.estado = "pendiente" /\ r1.fecha = FechaCanonical
              /\ r2.estado = "cancelada" /\ r2.fecha = FechaUnpadded
        /\ \A o \in get_reservations(header, [fecha |-> None, estado |-> None]) :
              Len(o.resp.items) = 2
        /\ \A o \in get_reservations(header, [fecha |-> None, estado |-> Some("pendiente")]) :
              Len(o.resp.items) = 1 /\ o.resp.items[1].fecha = FechaCanonical
        /\ \A o \in get_reservations(header, [fecha |-> Some(FechaUnpadded),
                                              estado |-> Some("cancelada")]) :
              Len(o.resp.items) = 1 /\ o.resp.items[1].estado = "cancelada"

\* the day and time a listed reservation is for, <<year, month, day, hour,
\* minute>>, read from its fecha and hora as the handler that stored it did
Moment(item) == validate_date(item.fecha)[1] \o validate_time(item.hora)[1]

\* moment a is not before moment b
RECURSIVE NotBefore(_, _)
NotBefore(a, b) ==
    IF a = << >> THEN TRUE
    ELSE IF Head(a) # Head(b) THEN Head(a) > Head(b)
    ELSE NotBefore(Tail(a), Tail(b))

\* C23: the list GET /reservations answers with is ordered by date and
\* time, most recent first: no item comes before an item of a later day or
\* of a later time of the same day.
C23_MostRecentFirst ==
    \A header \in GoodHeaders : \A query \in ReservationQueryInputs :
    \A o \in get_reservations(header, query) :
    \A i, j \in DOMAIN o.resp.items :
        i < j => NotBefore(Moment(o.resp.items[i]), Moment(o.resp.items[j]))

\* what the client receives from an outcome, and what the outcome leaves in
\* the store
Observed(outcomes) == {[http |-> HttpResponse(o.resp), reservas |-> o.reservas] : o \in outcomes}

make_reservation_alone(header, data) ==
    UNION {IF ~IsSome(o1.suspend)
           THEN {[resp |-> o1.resp, reservas |-> reservas]}
           ELSE UNION {IF ~IsSome(o2.suspend)
                       THEN {[resp |-> o2.resp, reservas |-> reservas]}
                       ELSE make_reservation_insert(o2.suspend[1])
                       : o2 \in make_reservation_find_conflict(o1.suspend[1])}
           : o1 \in make_reservation(header, data)}

\* the stored reservations for the slot a request body names
InSlot(data) ==
    {r \in reservas : /\ to_hex(r.id_mesa) = data.id_mesa
                      /\ r.fecha = data.fecha
                      /\ r.hora = data.hora}

\* C25: the end-to-end scenario, step by step.  For a registered restaurant,
\* its token and its table with min 2 and max 4, a reservation request for
\* a party of 3 on a slot nobody has used succeeds and stores a pending
\* reservation; repeating the request while that reservation is pending is
\* answered with a conflict; confirming the pending reservation succeeds
\* and makes it confirmed; cancelling the confirmed reservation succeeds and
\* makes it cancelled; confirming the cancelled reservation is answered
\* not-found.
C25_Scenario ==
    \A header \in GoodHeaders : \A user_id \in Authenticate(header) :
    \A m \in mesas :
        (m.id_restaurante = user_id /\ m.min_personas = Some(2) /\ m.max_personas = Some(4)) =>
        LET data == [ValidReservationBody EXCEPT !.id_mesa = to_hex(m.id)]
        IN /\ data.numero_personas = 3
           /\ InSlot(data) = {} =>
                 \A o \in make_reservation_alone(header, data) :
                     /\ o.resp.kind = "Ok" /\ o.resp.estado = "pendiente"
                     /\ \E r \in o.reservas \ reservas :
                           /\ o.reservas = reservas \cup {r}
                           /\ o.resp.id = Some(to_hex(r.id))
                           /\ r.estado = "pendiente" /\ r.id_mesa = m.id
                           /\ r.id_restaurante = user_id /\ r.numero_personas = 3
           /\ \A r \in InSlot(data) :
                 /\ r.estado = "pendiente" =>
                       /\ \A o \in make_reservation_alone(header, data) :
                             o.resp.kind = "Conflict" /\ o.reservas = reservas
                       /\ \A o \in confirm_reservation(header, to_hex(r.id)) :
                             /\ o.resp.kind = "Ok" /\ o.resp.estado = "confirmada"
                             /\ [r EXCEPT !.estado = "confirmada"] \in o.reservas
                 /\ r.estado = "confirmada" =>
                       \A o \in cancel_reservation(header, to_hex(r.id)) :
                           /\ o.resp.kind = "Ok" /\ o.resp.estado = "cancelada"
                           /\ [r EXCEPT !.estado = "cancelada"] \in o.reservas
                 /\ r.estado = "cancelada" =>
                       \A o \in confirm_reservation(header, to_hex(r.id)) :
                           o.resp.kind = "NotFound" /\ o.reservas = reservas

\* the end of the scenario: the party of 3 on the table for 2 to 4 has been
\* stored and cancelled, and a further confirm is answered not-found
C25_Witness ==
    \E m \in mesas : \E r \in reservas : \E header \in GoodHeaders :
        /\ m.min_personas = Some(2) /\ m.max_personas = Some(4)
        /\ Authenticate(header) = {m.id_restaurante}
        /\ r.id_mesa = m.id /\ r.numero_personas = 3
        /\ r.fecha = ValidReservationBody.fecha /\ r.hora = ValidReservationBody.hora
        /\ r.estado = "cancelada" /\ CopiesIn(r.id, cancels) = 1
        /\ \A o \in confirm_reservation(header, to_hex(r.id)) : o.resp.kind = "NotFound"

\* C26: cancelling frees the slot.  When reservations are stored for a slot
\* and every one of them is cancelled, a create-reservation request for that
\* slot that passes the input, ownership and capacity checks succeeds and
\* stores a new pending reservation.
C26_CancelledSlotIsFree ==
    \A header \in GoodHeaders : \A data \in MakeReservationProbes :
        (/\ InSlot(data) # {}
         /\ \A r \in InSlot(data) : r.estado = "cancelada"
         /\ \A o1 \in make_reservation(header, data) : IsSome(o1.suspend)) =>
        \A o \in make_reservation_alone(header, data) :
            /\ o.resp.kind = "Ok" /\ o.resp.estado = "pendiente"
            /\ \E r \in o.reservas \ reservas :
                  /\ o.reservas = reservas \cup {r}
                  /\ r.estado = "pendiente"
                  /\ r \in {q \in o.reservas : to_hex(q.id_mesa) = data.id_mesa
                                               /\ q.fecha = data.fecha /\ q.hora = data.hora}

\* confirm and cancel are one update_one each, which the store applies to
\* the document atomically: a request succeeds only on a document its filter
\* matches at that moment
OnlyMatchingSucceeds ==
    \A r \in reservas : \A header \in GoodHeaders :
        /\ r.estado # "pendiente" =>
              \A o \in confirm_reservation(header, to_hex(r.id)) :
                  o.resp.kind = "NotFound" /\ o.reservas = reservas
        /\ r.estado = "cancelada" =>
              \A o \in cancel_reservation(header, to_hex(r.id)) :
                  o.resp.kind = "NotFound" /\ o.reservas = reservas
        /\ (r.estado = "pendiente" /\ r.id_restaurante \in Authenticate(header)) =>
              /\ \A o \in confirm_reservation(header, to_hex(r.id)) : o.resp.kind = "Ok"
              /\ \A o \in cancel_reservation(header, to_hex(r.id)) : o.resp.kind = "Ok"

\* every step leaves a reservation that is no longer pending not pending,
\* and a cancelled one cancelled; a step in which a cancel succeeds is the
\* only such step for that reservation
NoSecondSuccess ==
    /\ \A r \in reservas : \A q \in reservas' :
          q.id = r.id =>
             /\ r.estado # "pendiente" => q.estado # "pendiente"
             /\ r.estado = "cancelada" => q.estado = "cancelada"
    /\ \A id \in BagToSet(cancels') :
          /\ CopiesIn(id, cancels') <= 1
          /\ CopiesIn(id, cancels') > CopiesIn(id, cancels) =>
                /\ \E r \in reservas : r.id = id /\ r.estado # "cancelada"
                /\ \A q \in reservas' : q.id = id => q.estado = "cancelada"

\* C27: concurrent confirm and cancel requests on one reservation are
\* atomic conditional updates.  Of the confirms of a pending reservation
\* the first to reach the store succeeds and every later one is answered
\* not-found, so of two concurrent confirms exactly one succeeds; likewise
\* of two concurrent cancels exactly one succeeds; and once a cancel has
\* succeeded the reservation is cancelled in every later state.
C27_AtomicUpdates ==
    /\ []OnlyMatchingSucceeds
    /\ [][NoSecondSuccess]_vars
    /\ [](\A id \in BagToSet(cancels) :
             \A r \in reservas : r.id = id => r.estado = "cancelada")

\* two reservations of one restaurant: one confirmed, whose second confirm
\* is answered not-found, and one cancelled by exactly one successful
\* cancel, whose second cancel is answered not-found
C27_Witness ==
    \E r1, r2 \in reservas : \E header \in GoodHeaders :
        /\ Authenticate(header) = {r1.id_restaurante}
        /\ r2.id_restaurante = r1.id_restaurante
        /\ r1.estado = "confirmada"
        /\ \A o \in confirm_reservation(header, to_hex(r1.id)) : o.resp.kind = "NotFound"
        /\ r2.estado = "cancelada" /\ CopiesIn(r2.id, cancels) = 1
        /\ \A o \in cancel_reservation(header, to_hex(r2.id)) : o.resp.kind = "NotFound"

\* C28: confirm and cancel change nothing but the status of the one
\* reservation they name: its id, owner, table, customer fields, party
\* size, date and time stay as stored, and no other reservation is touched.
\* No step of any operation changes those fields of a stored reservation or
\* removes a reservation.
C28_OnlyStatusChanges ==
    /\ [](\A header \in Headers : \A path \in IdTexts(reservas) :
          \A o \in confirm_reservation(header, path) \cup cancel_reservation(header, path) :
              /\ \A r \in reservas :
                    IF to_hex(r.id) = path
                    THEN \E estado \in {"pendiente", "confirmada", "cancelada"} :
                            [r EXCEPT !.estado = estado] \in o.reservas
                    ELSE r \in o.reservas
              /\ Cardinality(o.reservas) = Cardinality(reservas))
    /\ [][\A r \in reservas :
             \E q \in reservas' : q = [r EXCEPT !.estado = q.estado]]_vars

\* two reservations of one restaurant, one cancelled by a successful cancel
\* and one still as it was created
C28_Witness ==
    \E r1, r2 \in reservas :
        /\ r1.id # r2.id /\ r1.id_restaurante = r2.id_restaurante
        /\ r1.estado = "cancelada" /\ CopiesIn(r1.id, cancels) = 1
        /\ r2.estado = "pendiente"
        /\ \E header \in GoodHeaders :
              /\ Authenticate(header) = {r2.id_restaurante}
              /\ \A o \in confirm_reservation(header, to_hex(r2.id)) :
                    r1 \in o.reservas /\ [r2 EXCEPT !.estado = "confirmada"] \in o.reservas

\* the stored reservations whose table is no longer stored
Orphans == {r \in reservas : \A m \in mesas : m.id # r.id_mesa}

\* C29: clear-tables leaves the reservations as they are: no outcome of it
\* carries a change to them, and a step that deletes tables changes no
\* reservation.  A
\* reservation whose table was deleted keeps its status, names a table id
\* that no longer exists, and its owner can still confirm it while it is
\* pending and cancel it while it is not cancelled.
C29_ClearKeepsReservations ==
    /\ [](\A header \in Headers : \A query \in QueryParamsInputs :
          \A o \in clear_tables(header, query) : DOMAIN o = {"resp", "mesas"})
    /\ [][(\E m \in mesas : m \notin mesas') => reservas' = reservas]_vars
    /\ [](\A r \in Orphans : \A header \in GoodHeaders :
          r.id_restaurante \in Authenticate(header) =>
             /\ r.estado = "pendiente" =>
                   \A o \in confirm_reservation(header, to_hex(r.id)) :
                       /\ o.resp.kind = "Ok"
                       /\ [r EXCEPT !.estado = "confirmada"] \in o.reservas
             /\ r.estado # "cancelada" =>
                   \A o \in cancel_reservation(header, to_hex(r.id)) :
                       /\ o.resp.kind = "Ok"
                       /\ [r EXCEPT !.estado = "cancelada"] \in o.reservas)

\* after a clear that deleted its table, a reservation is still pending,
\* its owner's confirm and cancel would succeed, and the restaurant has no
\* table left
C29_Witness ==
    \E r \in Orphans : \E header \in GoodHeaders :
        /\ Authenticate(header) = {r.id_restaurante}
        /\ r.estado = "pendiente"
        /\ \A m \in mesas : m.id_restaurante # r.id_restaurante
        /\ \A o \in clear_tables(header, [id_restaurante |-> to_hex(r.id_restaurante)]) :
              o.resp.kind = "Ok" /\ o.resp.count = 0
        /\ \A o \in confirm_reservation(header, to_hex(r.id)) : o.resp.kind = "Ok"
        /\ \A o \in cancel_reservation(header, to_hex(r.id)) : o.resp.kind = "Ok"

====
